---- MODULE Spec2Model ----
(***************************************************************************)
(* A model of bedrock-jwt-mongodb: the key store facade (Store), the       *)
(* symmetric (HMAC) namespace handler with its read-triggered key          *)
(* rotation, the external-key (web key) handler, and the sign / verify     *)
(* protocol built on them.  Every call is an asynchronous chain that       *)
(* suspends at each access to the jwtKeyStore collection or to the key     *)
(* registry; one action models one such access together with all the      *)
(* synchronous code that runs in its callback.                             *)
(*                                                                         *)
(* Strings that the code parses or concatenates (namespace ids, key ids,   *)
(* algorithms, kid headers) are sequences of one-character strings.        *)
(***************************************************************************)
EXTENDS Integers, Sequences, FiniteSets, TLC

VARIABLES
    now,        \* the wall clock in seconds, shared by all processes (clock sync)
    store,      \* the jwtKeyStore collection: namespace id -> record
    calls,      \* the call in flight of each process
    last,       \* the call that ended in the last step, if one did
    tokens,     \* the token the observed client keeps of those issued to it, if any
    history,    \* per namespace, the key states written to the collection, in order
    nextKey,    \* the number of HMAC keys generated so far
    keyState    \* the module-level cache _keyState of each process (src/lib)

vars == <<now, store, calls, last, tokens, history, nextKey, keyState>>

----------------------------------------------------------------------------
(* Bounds of the model. *)

\* The clock runs from 0 to MaxTime.
MaxTime == 2

\* At most MaxKeys HMAC keys are generated in a behaviour.
MaxKeys == 4

\* Provision calls are started while the clock is at most MaxProvisionTime:
\* a deployment provisions its namespaces as it starts.
MaxProvisionTime == 0

\* The processes sharing the collection.
Procs == {"p1", "p2"}

----------------------------------------------------------------------------
(* JavaScript values. *)

\* null / an absent object.
Null == [null |-> TRUE]

\* The value of a property an object does not have.
Undefined == -2

\* The number NaN: what an addition with an undefined operand yields.
NaN == -1

\* rec.name in JavaScript: undefined when the object has no such property.
Prop(rec, name) == IF name \in DOMAIN rec THEN rec[name] ELSE Undefined

\* a + b on numbers: NaN as soon as an operand is undefined or NaN.
JsAdd(a, b) == IF a < 0 \/ b < 0 THEN NaN ELSE a + b

\* a > b on numbers: false as soon as an operand is NaN.
JsGt(a, b) == a >= 0 /\ b >= 0 /\ a > b

Digit(d) == <<"0", "1", "2", "3", "4", "5", "6", "7", "8", "9">>[d + 1]

\* '' + n for a non-negative integer n.
RECURSIVE NumToString(_)
NumToString(n) == IF n < 10 THEN <<Digit(n)>>
               ELSE NumToString(n \div 10) \o <<Digit(n % 10)>>

\* s.startsWith(prefix)
StartsWith(s, prefix) ==
    Len(s) >= Len(prefix) /\ SubSeq(s, 1, Len(prefix)) = prefix

\* s.substr(0, 2)
Substr02(s) == SubSeq(s, 1, IF Len(s) < 2 THEN Len(s) ELSE 2)

\* s.split(sep): the pieces of s between the occurrences of the character sep.
RECURSIVE Split(_, _)
Split(s, sep) ==
    IF \A i \in 1..Len(s) : s[i] # sep THEN <<s>>
    ELSE LET i == CHOOSE k \in 1..Len(s) :
                      s[k] = sep /\ \A j \in 1..(k - 1) : s[j] # sep
         IN <<SubSeq(s, 1, i - 1)>> \o Split(SubSeq(s, i + 1, Len(s)), sep)

\* An Error / BedrockError, by its type name and message.
Err(name, message) == [name |-> name, message |-> message]

----------------------------------------------------------------------------
(* The inputs of the modelled callers. *)

HS256  == <<"H", "S", "2", "5", "6">>
RS256  == <<"R", "S", "2", "5", "6">>
XYZ256 == <<"X", "Y", "Z", "2", "5", "6">>

NsA  == <<"a">>
NsAB == <<"a", ":", "b">>
NsX  == <<"x">>
NsR  == <<"r">>

\* What the external key registry answers to a lookup: an error, or the key
\* with its status.
RegistryAnswers == {"error", "active", "revoked"}

\* The options handed to Store.provision.  createState reads the policy under
\* options.namespace and the record takes it from options itself: the modelled
\* callers supply the same values at both places.
ProvisionOptions ==
    { [id |-> NsA,  algorithm |-> HS256,  tokenTtlInSecs |-> 1,
       clockToleranceInSecs |-> 1, key |-> <<>>],
      [id |-> NsA,  algorithm |-> RS256,  tokenTtlInSecs |-> 2,
       clockToleranceInSecs |-> 1, key |-> <<"k">>],
      [id |-> NsX,  algorithm |-> XYZ256, tokenTtlInSecs |-> 1,
       clockToleranceInSecs |-> 1, key |-> <<>>] }

\* The namespace ids handed to Store.sign.
SignNamespaces == {NsA, NsX}

\* The same, of a deployment whose namespace has a ':' in its id.
ProvisionOptionsColonId ==
    { [options EXCEPT !.id = IF options.id = NsA THEN NsAB ELSE options.id] :
        options \in ProvisionOptions }

SignNamespacesColonId == {NsAB, NsX}

\* The namespace objects handed to NamespaceHandler.sign by a direct caller
\* of the external-key handler.
ExternalNamespaces ==
    { [id |-> NsR, algorithm |-> RS256, tokenTtlInSecs |-> 1,
       clockToleranceInSecs |-> 1, key |-> <<"k">>] }

Payloads == { [sub |-> "alice"] }

\* Tokens a client presents to Store.verify that no sign call issued: one whose
\* header names an algorithm of a family without handler, and one of the HS
\* family whose kid names a key id no rotation produces.
ForeignTokens ==
    { [ header   |-> [alg |-> XYZ256, kid |-> NsA \o <<":", "0">>],
        payload  |-> [sub |-> "mallory", exp |-> 1, iat |-> 0],
        sig      |-> <<"forged">>,
        signedBy |-> [namespace |-> <<>>, keyId |-> <<>>] ],
      [ header   |-> [alg |-> HS256, kid |-> NsA \o <<":", "9">>],
        payload  |-> [sub |-> "mallory", exp |-> 1, iat |-> 0],
        sig      |-> <<"forged">>,
        signedBy |-> [namespace |-> <<>>, keyId |-> <<>>] ] }

----------------------------------------------------------------------------
(* The state of a call. *)

IdleCall ==
    [ op     |-> "none",  \* provision | sign | handlerSign | verify
      pc     |-> "idle",  \* the access the call waits for; done; thrown
      arg    |-> Null,    \* the options of the call
      ns     |-> Null,    \* the namespace object the call works on
      state  |-> Null,    \* the rotated key state awaiting its update
      record |-> Null,    \* the record awaiting its insert
      err    |-> Null,    \* the error handed to the caller's callback
      result |-> Null,    \* the result handed to the caller's callback
      reads  |-> 0,       \* reads of the collection made by the call
      writes |-> 0,       \* inserts / updates issued by the call
      lost   |-> FALSE,   \* a conditional update of the call matched no record
      dup    |-> FALSE,   \* the insert of the call hit an existing record
      answer |-> "none",  \* what the key registry answered to the call
      lookup |-> Null,    \* the query {id: key} the call sent to the registry
      target |-> Null ]   \* the namespace id the pending access is issued for

\* The id an access to the collection is issued for: a namespace id, or
\* undefined.
Target(id) == [id |-> id]
NoTarget == [undefined |-> TRUE]

NewCall(op, arg) == [IdleCall EXCEPT !.op = op, !.arg = arg]

\* The callback of the call is invoked with (err, result).
Done(c, err, result) ==
    [c EXCEPT !.pc = "done", !.err = err, !.result = result,
              !.ns = Null, !.state = Null, !.record = Null, !.target = Null]

\* An exception escapes the call: its callback is never invoked.
Thrown(c) ==
    [c EXCEPT !.pc = "thrown", !.ns = Null, !.state = Null, !.record = Null,
              !.target = Null]

Ended(c) == c.pc \in {"done", "thrown"}

\* The call handed a token to its caller.
Issued(c) == c.pc = "done" /\ c.op \in {"sign", "handlerSign"} /\ c.err = Null

\* Process p's call moves to c: a call that ended frees the process, and the
\* caller of a sign call keeps the token or drops it.
Settle(p, c) ==
    /\ calls' = [calls EXCEPT ![p] = IF Ended(c) THEN IdleCall ELSE c]
    /\ last' = IF Ended(c) THEN c ELSE IdleCall
    /\ tokens' \in IF Issued(c) /\ tokens = {}
                   THEN {tokens, {c.result}}
                   ELSE {tokens}

----------------------------------------------------------------------------
(* Store: handler dispatch and provisioning. *)

\* The family prefixes Store registers a handler for.
HandlerFamilies == {<<"H", "S">>, <<"R", "S">>}

\* A dispatch that falls back to the HMAC handler for an unknown family.
GetNamespaceHandlerHmacDefault(algorithm) ==
    IF Substr02(algorithm) = <<"R", "S">> THEN "WebKey" ELSE "Hmac"

\* Store._getNamespaceHandler: the handler registered for the family prefix of
\* the algorithm, or the exception it throws.
GetNamespaceHandler(algorithm) ==
    LET family == Substr02(algorithm)
    IN IF family \notin HandlerFamilies THEN "throw"
       ELSE IF family = <<"H", "S">> THEN "Hmac"
       ELSE "WebKey"

\* A read that reports a missing record the way the HMAC handler's _get does.
GetNamespaceKeyNotFound(coll, id) ==
    IF id \notin DOMAIN coll
    THEN [err |-> Err("NotFound", "Key not found."), namespace |-> Null]
    ELSE [err |-> Null, namespace |-> coll[id].namespace]

\* Store.getNamespace: one read of the collection.
GetNamespace(coll, id) ==
    IF id \notin DOMAIN coll
    THEN [err |-> Err("NotFound", "Key state not found."), namespace |-> Null]
    ELSE [err |-> Null, namespace |-> coll[id].namespace]

\* crypto.randomBytes(16).toString('base64'): the n-th fresh material.
GenerateHmacKey(n) == <<"b64", n>>

\* new Buffer(data, 'base64')
Base64Decode(data) == <<"raw", data[2]>>

HmacCreateState(options, nowInSecs, data) ==
    [ previousKey |-> Null,
      key |-> [ id      |-> NumToString(nowInSecs),
                data    |-> data,
                created |-> nowInSecs,
                expires |-> JsAdd(JsAdd(nowInSecs, options.tokenTtlInSecs),
                                  options.clockToleranceInSecs) ] ]

\* NamespaceHandlerWebKey.getKey on the answer of brKey.getPublicKey.
WebKeyGetKey(key, answer) ==
    IF answer = "error"
    THEN [err |-> Err("InvalidKey", "Invalid signing key specified."), key |-> Null]
    ELSE IF answer # "active"
    THEN [err |-> Err("InvalidKey", "The specified signing key has been revoked."),
          key |-> Null]
    ELSE [err |-> Null, key |-> [id |-> key, material |-> <<"pem", key>>]]

\* The state NamespaceHandlerWebKey.createState hands back: {}.
WebKeyState == [webKey |-> TRUE]

\* The record Store.provision inserts.
NamespaceRecord(options, state, t) ==
    [ meta |-> [created |-> t, updated |-> t],
      namespace |-> [ id                   |-> options.id,
                      algorithm            |-> options.algorithm,
                      clockToleranceInSecs |-> options.clockToleranceInSecs,
                      tokenTtlInSecs       |-> options.tokenTtlInSecs,
                      state                |-> state ] ]

\* The error of Store.provision for an algorithm without a handler.
ProvisionUnsupported(c) ==
    Done(c, Err("NotFound", "Unsupported algorithm."), Null)

\* An insert callback that hands the duplicate-key error to the caller.
StoreNamespaceDoneSurfaced(c, duplicate, record) ==
    IF duplicate
    THEN [Done(c, Err("InternalError",
                      "Failed to insert namespace due to internal error."), Null)
            EXCEPT !.dup = TRUE]
    ELSE Done(c, Null, record)

\* The callback of the insert: a duplicate is absorbed, and the inserted
\* record is handed on otherwise.
StoreNamespaceDone(c, duplicate, record) ==
    IF duplicate THEN [Done(c, Null, Null) EXCEPT !.dup = TRUE]
    ELSE Done(c, Null, record)

\* Store.provision up to its insert: the handler is selected and its
\* createState runs (for the external-key handler, on the registry's answer).
Provision(p, options) ==
    /\ calls[p].pc = "idle"
    /\ now <= MaxProvisionTime
    /\ LET handler == GetNamespaceHandler(options.algorithm)
           c == NewCall("provision", options)
       IN IF handler = "throw"
          THEN /\ Settle(p, ProvisionUnsupported(c))
               /\ nextKey' = nextKey
          ELSE IF handler = "Hmac"
          THEN /\ nextKey < MaxKeys
               /\ nextKey' = nextKey + 1
               /\ Settle(p, [c EXCEPT !.pc = "insert", !.writes = 1,
                    !.target = Target(options.id),
                    !.record = NamespaceRecord(options,
                        HmacCreateState(options, now,
                                        GenerateHmacKey(nextKey + 1)), now)])
          ELSE /\ nextKey' = nextKey
               /\ \E answer \in RegistryAnswers :
                    LET r == WebKeyGetKey(options.key, answer)
                        d == [c EXCEPT !.answer = answer,
                                       !.lookup = [id |-> options.key]]
                    IN Settle(p, IF r.err # Null THEN Done(d, r.err, Null)
                                 ELSE [d EXCEPT !.pc = "insert", !.writes = 1,
                                         !.target = Target(options.id),
                                         !.record = NamespaceRecord(options,
                                                        WebKeyState, now)])
    /\ UNCHANGED <<now, store, history, keyState>>

\* The insert reaches the collection (unique index on id) and its callback runs.
ProvisionInsert(p) ==
    /\ calls[p].op = "provision" /\ calls[p].pc = "insert"
    /\ LET c == calls[p]
           id == c.record.namespace.id
           duplicate == id \in DOMAIN store
       IN /\ store' = IF duplicate THEN store ELSE (id :> c.record) @@ store
          /\ history' = IF duplicate THEN history
                        ELSE (id :> <<c.record.namespace.state>>) @@ history
          /\ Settle(p, StoreNamespaceDone(c, duplicate, c.record))
    /\ UNCHANGED <<now, nextKey, keyState>>

----------------------------------------------------------------------------
(* NamespaceHandler.sign and the key resolution of the two handlers. *)

\* _.assign(payload, extra)
Assign(payload, extra) == extra @@ payload

\* A kid header without the namespace prefix, whatever the algorithm.
KidHeaderBare(namespace, key) == key.id

\* The kid header NamespaceHandler.sign builds.
KidHeader(namespace, key) ==
    IF StartsWith(namespace.algorithm, <<"H", "S">>)
    THEN namespace.id \o <<":">> \o key.id
    ELSE key.id

\* The create step of NamespaceHandler.sign: jwt.sign of the payload extended
\* with exp and iat.  signedBy records the namespace and key the step used.
CreateToken(namespace, payload, key, nowInSecs) ==
    [ header   |-> [alg |-> namespace.algorithm, kid |-> KidHeader(namespace, key)],
      payload  |-> Assign(payload,
                          [exp |-> nowInSecs + namespace.tokenTtlInSecs,
                           iat |-> nowInSecs]),
      sig      |-> key.material,
      signedBy |-> [namespace |-> namespace.id, keyId |-> key.id] ]

\* The getKey step of NamespaceHandlerHmac.getKey.
HmacKeyOf(state) ==
    [id |-> state.key.id, material |-> Base64Decode(state.key.data)]

\* The expiry test of the rotate step.
KeyLive(state, nowInSecs) == JsGt(state.key.expires, nowInSecs)

\* The state the rotate step builds for an expired key.
RotateState(state, nowInSecs, data) ==
    [ previousKey |-> state.key,
      key |-> [ id      |-> NumToString(nowInSecs),
                data    |-> data,
                created |-> nowInSecs,
                expires |-> JsAdd(JsAdd(nowInSecs, Prop(state, "tokenTtlInSecs")),
                                  Prop(state, "tokenClockToleranceInSecs")) ] ]

\* An update that carries no condition on the key id.
UpdateUnconditional(coll, id, state) ==
    id \in DOMAIN coll

\* Whether the conditional update issued by the rotate step matches the record:
\* {id: hash(id), 'namespace.state.key.id': state.previousKey.id}.
UpdateMatches(coll, id, state) ==
    /\ id \in DOMAIN coll
    /\ "key" \in DOMAIN coll[id].namespace.state
    /\ coll[id].namespace.state.key.id = state.previousKey.id

\* An update that rewrites the policy of the namespace along with its state.
UpdateApplyWithPolicy(coll, id, state, t) ==
    [coll EXCEPT ![id].namespace.state = state, ![id].meta.updated = t,
                 ![id].namespace.tokenTtlInSecs = 0]

\* The collection after NamespaceHandlerHmac._update matched.
UpdateApply(coll, id, state, t) ==
    [coll EXCEPT ![id].namespace.state = state, ![id].meta.updated = t]

\* The call hands the token signed with `key` to its caller.
SignDone(c, namespace, key) ==
    Done(c, Null, CreateToken(namespace, c.arg.payload, key, now))

\* NamespaceHandlerHmac.getKey on the namespace object Store.sign fetched, up to
\* its conditional update.
HmacGetKey(c, namespace, data) ==
    IF KeyLive(namespace.state, now)
    THEN SignDone(c, namespace, HmacKeyOf(namespace.state))
    ELSE [c EXCEPT !.pc = "update", !.ns = namespace, !.writes = @ + 1,
                   !.target = Target(namespace.id),
                   !.state = RotateState(namespace.state, now, data)]

\* NamespaceHandlerWebKey.getKey and the create step on its key.  A record
\* fetched by Store.sign carries no key reference: the lookup of an undefined
\* reference fails or throws.
WebKeySign(c, namespace, answer, throws) ==
    IF "key" \notin DOMAIN namespace
    THEN IF throws THEN Thrown(c)
         ELSE Done(c, Err("InvalidKey", "Invalid signing key specified."), Null)
    ELSE LET r == WebKeyGetKey(namespace.key, answer)
             d == [c EXCEPT !.lookup = [id |-> namespace.key]]
         IN IF r.err # Null THEN Done(d, r.err, Null)
            ELSE SignDone(d, namespace, r.key)

\* Store.sign: the record is fetched and the handler's sign runs up to its
\* conditional update (the external-key handler's, on the registry's answer).
Sign(p, namespace, payload) ==
    /\ calls[p].pc = "idle"
    /\ LET c == [NewCall("sign", [namespace |-> namespace, payload |-> payload])
                   EXCEPT !.reads = 1]
           got == GetNamespace(store, namespace)
       IN IF got.err # Null
          THEN /\ Settle(p, Done(c, got.err, Null))
               /\ nextKey' = nextKey
          ELSE LET ns == got.namespace
                   handler == GetNamespaceHandler(ns.algorithm)
               IN IF handler = "throw"
                  THEN /\ Settle(p, Done(c, Err("Error", "Unsupported algorithm."),
                                         Null))
                       /\ nextKey' = nextKey
                  ELSE IF handler = "WebKey"
                  THEN /\ \E answer \in RegistryAnswers, throws \in BOOLEAN :
                            Settle(p, WebKeySign([c EXCEPT !.answer = answer],
                                                 ns, answer, throws))
                       /\ nextKey' = nextKey
                  ELSE IF KeyLive(ns.state, now)
                  THEN /\ Settle(p, HmacGetKey(c, ns, <<>>))
                       /\ nextKey' = nextKey
                  ELSE /\ nextKey < MaxKeys
                       /\ nextKey' = nextKey + 1
                       /\ Settle(p, HmacGetKey(c, ns, GenerateHmacKey(nextKey + 1)))
    /\ UNCHANGED <<now, store, history, keyState>>

\* The conditional update of the rotate step reaches the collection and its
\* callback runs: the winner signs with its new key, a loser starts over from
\* the namespace id.
SignUpdate(p) ==
    /\ calls[p].op = "sign" /\ calls[p].pc = "update"
    /\ LET c == calls[p]
           id == c.ns.id
       IN IF UpdateMatches(store, id, c.state)
          THEN /\ store' = UpdateApply(store, id, c.state, c.state.key.created)
               /\ history' = [history EXCEPT ![id] = Append(@, c.state)]
               /\ Settle(p, SignDone(c, c.ns, HmacKeyOf(c.state)))
          ELSE /\ Settle(p, [c EXCEPT !.pc = "retryGet", !.lost = TRUE,
                                      !.target = Target(id),
                                      !.state = Null])
               /\ UNCHANGED <<store, history>>
    /\ UNCHANGED <<now, nextKey, keyState>>

\* The retry of getKey after a lost update: options.namespace is now the id, so
\* the record is fetched again.  If its key is live the call signs with it.
\* Otherwise the rotate step runs again and issues its update for
\* options.namespace.id, which is undefined on a string: database.hash either
\* throws on it or yields the hash of no record.
SignRetryGet(p) ==
    /\ calls[p].op = "sign" /\ calls[p].pc = "retryGet"
    /\ LET c == [calls[p] EXCEPT !.reads = @ + 1]
           id == c.ns.id
       IN IF id \notin DOMAIN store
          THEN Settle(p, Done(c, Err("NotFound", "Key not found."), Null))
          ELSE IF KeyLive(store[id].namespace.state, now)
          THEN Settle(p, SignDone(c, c.ns, HmacKeyOf(store[id].namespace.state)))
          ELSE \E throws \in BOOLEAN :
                 Settle(p, IF throws THEN Thrown(c)
                           ELSE [c EXCEPT !.pc = "updateNoId", !.writes = @ + 1,
                                          !.target = NoTarget])
    /\ UNCHANGED <<now, store, history, nextKey, keyState>>

\* The update issued without a namespace id matches no record; the next retry
\* runs with options.namespace undefined and its rotate step throws on
\* results.getNamespace.state.
SignUpdateNoId(p) ==
    /\ calls[p].op = "sign" /\ calls[p].pc = "updateNoId"
    /\ Settle(p, Thrown(calls[p]))
    /\ UNCHANGED <<now, store, history, nextKey, keyState>>

\* NamespaceHandler.sign called on the external-key handler with a namespace
\* object of the caller's.
HandlerSign(p, namespace, payload, answer) ==
    /\ calls[p].pc = "idle"
    /\ Settle(p, WebKeySign([NewCall("handlerSign",
                                     [namespace |-> namespace.id,
                                      payload |-> payload])
                               EXCEPT !.answer = answer],
                            namespace, answer, FALSE))
    /\ UNCHANGED <<now, store, history, nextKey, keyState>>

----------------------------------------------------------------------------
(* Store.verify and the handlers' verify. *)

\* Store._parse
Parse(kid) ==
    LET parts == Split(kid, ":")
    IN [ namespace |-> parts[1],
         \* parts[1] of the code; undefined (no key id) when there is no ':'
         keyId     |-> IF Len(parts) >= 2 THEN parts[2] ELSE <<>> ]

\* jwt.verify(token, secret, {clockTolerance}): the signature, then the expiry.
JwtVerify(token, secret, clockTolerance, nowInSecs) ==
    IF token.sig # secret
    THEN [err |-> Err("JsonWebTokenError", "invalid signature"), result |-> Null]
    ELSE IF nowInSecs >= token.payload.exp + clockTolerance
    THEN [err |-> Err("TokenExpiredError", "jwt expired"), result |-> Null]
    ELSE [err |-> Null, result |-> token.payload]

\* A verify that knows the current key only.
HmacVerifyCurrentOnly(token, namespace, keyId, nowInSecs) ==
    IF keyId = namespace.state.key.id
    THEN JwtVerify(token, Base64Decode(namespace.state.key.data),
                   namespace.clockToleranceInSecs, nowInSecs)
    ELSE [err |-> Err("Error", "Invalid key identifier in token."),
          result |-> Null]

\* NamespaceHandlerHmac.verify
HmacVerify(token, namespace, keyId, nowInSecs) ==
    LET state == namespace.state
    IN IF keyId = state.key.id
       THEN JwtVerify(token, Base64Decode(state.key.data),
                      namespace.clockToleranceInSecs, nowInSecs)
       ELSE IF state.previousKey # Null /\ keyId = state.previousKey.id
       THEN JwtVerify(token, Base64Decode(state.previousKey.data),
                      namespace.clockToleranceInSecs, nowInSecs)
       ELSE [err |-> Err("Error", "Invalid key identifier in token."),
             result |-> Null]

\* NamespaceHandler.verify, which the external-key handler inherits.
BaseVerify ==
    [err |-> Err("Error", "NamespaceHandler#verify must be overriden by subclass."),
     result |-> Null]

\* Store.verify: what the callback receives, and the reads of the collection.
StoreVerify(token, coll, nowInSecs) ==
    IF ~StartsWith(token.header.alg, <<"H", "S">>)
    THEN [err |-> Null, result |-> Err("Error", "Unsupported algorithm."),
          reads |-> 0]
    ELSE LET parsedKid == Parse(token.header.kid)
             got == GetNamespace(coll, parsedKid.namespace)
         IN IF got.err # Null
            THEN [err |-> got.err, result |-> Null, reads |-> 1]
            ELSE LET ns == got.namespace
                     handler == GetNamespaceHandler(ns.algorithm)
                     r == IF handler = "throw"
                          THEN [err |-> Err("Error", "Unsupported algorithm."),
                                result |-> Null]
                          ELSE IF handler = "Hmac"
                          THEN HmacVerify(token, ns, parsedKid.keyId, nowInSecs)
                          ELSE BaseVerify
                 IN [err |-> r.err, result |-> r.result, reads |-> 1]

\* A verify that resolves the key the way sign does and writes to the record
\* of a namespace whose key it finds expired.
VerifyWithRotation(token) ==
    /\ LET r == StoreVerify(token, store, now)
       IN last' = [Done(NewCall("verify", [token |-> token]), r.err, r.result)
                     EXCEPT !.reads = r.reads]
    /\ store' = [id \in DOMAIN store |->
                   IF /\ GetNamespaceHandler(store[id].namespace.algorithm) = "Hmac"
                      /\ ~KeyLive(store[id].namespace.state, now)
                   THEN [store[id] EXCEPT !.meta.updated = now]
                   ELSE store[id]]
    /\ UNCHANGED <<now, calls, tokens, history, nextKey, keyState>>

\* A verify call: one read of the collection, then the handler's verify.
Verify(token) ==
    /\ LET r == StoreVerify(token, store, now)
       IN last' = [Done(NewCall("verify", [token |-> token]), r.err, r.result)
                     EXCEPT !.reads = r.reads]
    /\ UNCHANGED <<now, store, calls, tokens, history, nextKey, keyState>>

----------------------------------------------------------------------------
(* The environment. *)

Tick ==
    /\ now < MaxTime
    /\ now' = now + 1
    /\ last' = IdleCall
    /\ UNCHANGED <<store, calls, tokens, history, nextKey, keyState>>

----------------------------------------------------------------------------

Init ==
    /\ now = 0
    /\ store = <<>>
    /\ calls = [p \in Procs |-> IdleCall]
    /\ last = IdleCall
    /\ tokens = {}
    /\ history = <<>>
    /\ nextKey = 0
    /\ keyState = [p \in Procs |-> Null]

\* The steps of a deployment whose callers draw their provision options and
\* namespace ids from the given sets.
Step(provisionOptions, signNamespaces) ==
    \/ \E p \in Procs, options \in provisionOptions : Provision(p, options)
    \/ \E p \in Procs : ProvisionInsert(p)
    \/ \E p \in Procs, namespace \in signNamespaces, payload \in Payloads :
          Sign(p, namespace, payload)
    \/ \E p \in Procs : SignUpdate(p)
    \/ \E p \in Procs : SignRetryGet(p)
    \/ \E p \in Procs : SignUpdateNoId(p)
    \/ \E p \in Procs, namespace \in ExternalNamespaces, payload \in Payloads,
          answer \in RegistryAnswers :
          HandlerSign(p, namespace, payload, answer)
    \/ \E token \in tokens \cup ForeignTokens : Verify(token)
    \/ Tick

Next == Step(ProvisionOptions, SignNamespaces)

Spec == Init /\ [][Next]_vars

NextColonId == Step(ProvisionOptionsColonId, SignNamespacesColonId)

SpecColonId == Init /\ [][NextColonId]_vars

----------------------------------------------------------------------------
(* The single-store API of src/lib/index.js: provision, sign and verify,   *)
(* each resolving the key state through _getState and the cache _keyState. *)
(* A process runs one call of this API at a time.                          *)

\* The options handed to api.provision.
LegacyProvisionOptions ==
    { [namespace |-> NsA, algorithm |-> HS256, ttlInSecs |-> 1,
       clockToleranceInSecs |-> 1],
      [namespace |-> NsX, algorithm |-> HS256, ttlInSecs |-> 1,
       clockToleranceInSecs |-> 1] }

\* The namespaces handed to api.sign and api.verify.
LegacyNamespaces == {NsA, NsX}

\* The call runs the retry _getState(done): its options are the function done,
\* whose namespace and provision are undefined, and its callback is undefined.
Retried(c) == c.lost \/ c.dup

\* The key state the ensureExists step builds.
LegacyCreateState(options, nowInSecs, data) ==
    [ id                        |-> options.namespace,
      previousKey               |-> Null,
      tokenTtlInSecs            |-> options.ttlInSecs,
      tokenClockToleranceInSecs |-> options.clockToleranceInSecs,
      key |-> [ id        |-> NumToString(nowInSecs),
                algorithm |-> options.algorithm,
                data      |-> data,
                created   |-> nowInSecs,
                expires   |-> JsAdd(JsAdd(nowInSecs, options.ttlInSecs),
                                    options.clockToleranceInSecs) ] ]

\* The record _insert writes.
LegacyRecord(id, state, t) ==
    [id |-> id, meta |-> [created |-> t, updated |-> t], state |-> state]

\* The key state after the update step replaced its expired key.
LegacyRotate(state, nowInSecs, data) ==
    [ state EXCEPT
        !.previousKey = state.key,
        !.key = [ id        |-> NumToString(nowInSecs),
                  algorithm |-> state.key.algorithm,
                  data      |-> data,
                  created   |-> nowInSecs,
                  expires   |-> JsAdd(JsAdd(nowInSecs,
                                            Prop(state, "tokeTtlInSecs")),
                                      Prop(state, "tokenClockToleranceInSecs")) ] ]

\* The key state after the decode step.
LegacyDecode(state) ==
    [ state EXCEPT
        !.key.data = Base64Decode(@),
        !.previousKey = IF @ = Null THEN @
                        ELSE [@ EXCEPT !.data = Base64Decode(@)] ]

\* Whether the conditional update of the update step matches the record:
\* {id: hash(id), 'state.key.id': state.previousKey.id}.
LegacyUpdateMatches(coll, id, state) ==
    /\ id \in DOMAIN coll
    /\ coll[id].state.key.id = state.previousKey.id

\* _keyState = null
ClearCache(cache) == Null

\* The create step of api.sign.  jwt.sign is handed algorithm: state.algorithm,
\* a property the key state does not have, and signs with its default.
LegacyToken(c, state, nowInSecs) ==
    [ header   |-> [alg |-> HS256, kid |-> state.key.id],
      payload  |-> Assign(c.arg.payload,
                          [exp |-> nowInSecs + state.tokenTtlInSecs,
                           iat |-> nowInSecs]),
      sig      |-> state.key.data,
      signedBy |-> [namespace |-> c.arg.namespace, keyId |-> state.key.id] ]

\* The verify step of api.verify: jwt.verify with algorithms
\* [state.key.algorithm] and clockTolerance state.clockToleranceInSecs, a
\* property the key state does not have (no tolerance).  The false handed to
\* the callback beside an error is Null here.
LegacyVerify(c, state, nowInSecs) ==
    LET token == c.arg.token
        kid == token.header.kid
        with(key) ==
            IF token.header.alg # state.key.algorithm
            THEN Done(c, Err("JsonWebTokenError", "invalid algorithm"), Null)
            ELSE LET r == JwtVerify(token, key.data, 0, nowInSecs)
                 IN Done(c, r.err, r.result)
    IN IF kid = state.key.id THEN with(state.key)
       ELSE IF state.previousKey # Null /\ kid = state.previousKey.id
       THEN with(state.previousKey)
       ELSE Done(c, Err("Error", "Invalid key identifier in token."), Null)

\* The final callback of _getState, callback(err, _keyState), and what the
\* API function does with it.  In a retry callback is undefined and the
\* invocation throws.  Whether jwt.sign accepts an undefined algorithm depends
\* on the version of the library.
Finish(p, c, err, state) ==
    IF Retried(c) THEN Settle(p, Thrown(c))
    ELSE IF err # Null \/ c.op = "provision" THEN Settle(p, Done(c, err, Null))
    ELSE IF c.op = "sign"
    THEN \E throws \in BOOLEAN :
           Settle(p, IF throws THEN Thrown(c)
                     ELSE Done(c, Null, LegacyToken(c, state, now)))
    ELSE Settle(p, LegacyVerify(c, state, now))

\* The update and decode steps of _getState on the key state handed on by
\* ensureExists, up to the conditional update.  A state taken from the cache is
\* the cached object itself, which the update step changes in place.
UpdateStep(p, c, state, cache, fromCache) ==
    IF JsGt(state.key.expires, now)
    THEN /\ keyState' = [keyState EXCEPT ![p] = LegacyDecode(state)]
         /\ nextKey' = nextKey
         /\ Finish(p, c, Null, LegacyDecode(state))
    ELSE /\ nextKey < MaxKeys
         /\ nextKey' = nextKey + 1
         /\ LET rotated == LegacyRotate(state, now, GenerateHmacKey(nextKey + 1))
            IN /\ keyState' = [keyState EXCEPT
                                 ![p] = IF fromCache THEN rotated ELSE cache]
               /\ Settle(p, [c EXCEPT !.pc = "update", !.state = rotated,
                                      !.target = IF Retried(c) THEN NoTarget
                                                 ELSE Target(c.arg.namespace),
                                      !.record = Null, !.writes = @ + 1])

\* _getState from its get step: the cached key state if there is one, the
\* record's otherwise; without record a provisioning call builds a key state
\* and issues its insert.
GetState(p, c, provision) ==
    LET cache == keyState[p]
        id == c.arg.namespace
        d == [c EXCEPT !.reads = 1]
    IN IF cache # Null THEN UpdateStep(p, c, cache, cache, TRUE)
       ELSE IF id \in DOMAIN store
       THEN UpdateStep(p, d, store[id].state, cache, FALSE)
       ELSE IF provision
       THEN /\ nextKey < MaxKeys
            /\ nextKey' = nextKey + 1
            /\ keyState' = keyState
            /\ LET state == LegacyCreateState(c.arg, now,
                                              GenerateHmacKey(nextKey + 1))
               IN Settle(p, [d EXCEPT !.pc = "insert", !.writes = 1,
                                      !.target = Target(id),
                                      !.state = state,
                                      !.record = LegacyRecord(id, state, now)])
       ELSE /\ nextKey' = nextKey
            /\ keyState' = keyState
            /\ Finish(p, d, Err("NotFound", "Key state not found."), Null)

\* The retry _getState(done), run from process.nextTick before any other
\* callback of the process, on the cache as the failed write left it.  Its read
\* is for the namespace undefined: database.hash either throws on it or
\* yields the hash of no record.
Retry(p, c, cache) ==
    IF cache # Null THEN UpdateStep(p, c, cache, cache, TRUE)
    ELSE /\ keyState' = [keyState EXCEPT ![p] = cache]
         /\ nextKey' = nextKey
         /\ \E throws \in BOOLEAN :
              Settle(p, IF throws THEN Thrown(c)
                        ELSE [c EXCEPT !.pc = "retryGet", !.reads = @ + 1,
                                       !.target = NoTarget,
                                       !.state = Null, !.record = Null])

ApiProvision(p, options) ==
    /\ calls[p].pc = "idle"
    /\ now <= MaxProvisionTime
    /\ GetState(p, NewCall("provision", options), TRUE)
    /\ UNCHANGED <<now, store, history>>

ApiSign(p, namespace, payload) ==
    /\ calls[p].pc = "idle"
    /\ GetState(p, NewCall("sign", [namespace |-> namespace,
                                    payload |-> payload]), FALSE)
    /\ UNCHANGED <<now, store, history>>

ApiVerify(p, namespace, token) ==
    /\ calls[p].pc = "idle"
    /\ GetState(p, NewCall("verify", [namespace |-> namespace,
                                      token |-> token]), FALSE)
    /\ UNCHANGED <<now, store, history>>

\* The insert of ensureExists reaches the collection (unique index on id) and
\* its callback runs: on a duplicate the cache is cleared and the call retried.
GetStateInsert(p) ==
    /\ calls[p].op = "provision" /\ calls[p].pc = "insert"
    /\ LET c == calls[p]
           id == c.arg.namespace
       IN IF id \in DOMAIN store
          THEN /\ UNCHANGED <<store, history>>
               /\ Retry(p, [c EXCEPT !.dup = TRUE], ClearCache(keyState[p]))
          ELSE /\ store' = (id :> c.record) @@ store
               /\ history' = (id :> <<c.state>>) @@ history
               /\ UpdateStep(p, c, c.state, keyState[p], FALSE)
    /\ UNCHANGED now

\* The conditional update of the update step reaches the collection and its
\* callback runs: the winner decodes and caches its key state, a loser clears
\* the cache and retries.
GetStateUpdate(p) ==
    /\ calls[p].pc = "update"
    /\ LET c == calls[p]
           id == c.arg.namespace
       IN IF ~Retried(c) /\ LegacyUpdateMatches(store, id, c.state)
          THEN /\ store' = [store EXCEPT ![id].state = c.state,
                                         ![id].meta.updated = c.state.key.created]
               /\ history' = [history EXCEPT ![id] = Append(@, c.state)]
               /\ keyState' = [keyState EXCEPT ![p] = LegacyDecode(c.state)]
               /\ nextKey' = nextKey
               /\ Finish(p, c, Null, LegacyDecode(c.state))
          ELSE /\ UNCHANGED <<store, history>>
               /\ Retry(p, [c EXCEPT !.lost = TRUE], ClearCache(keyState[p]))
    /\ UNCHANGED now

\* The read of the retry finds no record for the namespace undefined, and the
\* final callback of the retry, which is undefined, is invoked with the error.
GetStateRetryGet(p) ==
    /\ calls[p].pc = "retryGet"
    /\ Settle(p, Thrown(calls[p]))
    /\ UNCHANGED <<now, store, history, nextKey, keyState>>

NextLegacy ==
    \/ \E p \in Procs, options \in LegacyProvisionOptions : ApiProvision(p, options)
    \/ \E p \in Procs, namespace \in LegacyNamespaces, payload \in Payloads :
          ApiSign(p, namespace, payload)
    \/ \E p \in Procs, namespace \in LegacyNamespaces, token \in tokens :
          ApiVerify(p, namespace, token)
    \/ \E p \in Procs : GetStateInsert(p)
    \/ \E p \in Procs : GetStateUpdate(p)
    \/ \E p \in Procs : GetStateRetryGet(p)
    \/ Tick

SpecLegacy == Init /\ [][NextLegacy]_vars

----------------------------------------------------------------------------
(* Properties of key rotation. *)

\* C1: rotation happens exactly once per expired key: of the key states
\* written to the collection for a namespace, no two retire the same key,
\* whatever the interleaving of the calls that read that key as expired.
RotationExactlyOnce ==
    \A id \in DOMAIN history :
        \A i, j \in 1..Len(history[id]) :
            (i < j /\ history[id][i].previousKey # Null)
                => history[id][i].previousKey.data # history[id][j].previousKey.data

\* C2: a sign call whose conditional update lost the rotation race recovers:
\* it ends with its callback invoked, without an error, and with a token
\* signed by the key of the winning rotation, which the collection holds.
LosersRecover ==
    (last.op = "sign" /\ last.lost) =>
        /\ last.pc = "done"
        /\ last.err = Null
        /\ last.result.sig =
             Base64Decode(store[last.arg.namespace].namespace.state.key.data)

\* C3: as long as a token of a symmetric namespace has not passed its exp plus
\* the clock tolerance, the key that signed it is still the namespace's key or
\* previousKey, and verify does not answer with the invalid key identifier
\* error.
TokensStayVerifiable ==
    \A token \in tokens :
        LET ns == store[token.signedBy.namespace].namespace
        IN (token.header.alg = HS256
              /\ now < token.payload.exp + ns.clockToleranceInSecs)
             => /\ \/ token.sig = Base64Decode(ns.state.key.data)
                   \/ /\ ns.state.previousKey # Null
                      /\ token.sig = Base64Decode(ns.state.previousKey.data)
                /\ StoreVerify(token, store, now).err
                     # Err("Error", "Invalid key identifier in token.")

\* C4: a token signed with key K still verifies when exactly one rotation has
\* been written since K became the key (and the token has not expired), and
\* verify answers with the invalid key identifier error once two have.
VerificationWindow ==
    \A token \in tokens :
        token.header.alg = HS256 =>
            LET written == history[token.signedBy.namespace]
                ns == store[token.signedBy.namespace].namespace
                k == CHOOSE i \in 1..Len(written) :
                       Base64Decode(written[i].key.data) = token.sig
                r == StoreVerify(token, store, now)
            IN /\ (Len(written) = k + 1
                     /\ now < token.payload.exp + ns.clockToleranceInSecs)
                    => r.err = Null
               /\ Len(written) >= k + 2
                    => r.err = Err("Error", "Invalid key identifier in token.")

----------------------------------------------------------------------------
(* Properties of sign and verify. *)

\* C5: verify applied to the token a sign call of a symmetric namespace just
\* returned succeeds, and returns the payload of the call extended with iat,
\* the signing time, and exp, iat plus the namespace's tokenTtlInSecs.
SignVerifyRoundTrip ==
    (last.op = "sign" /\ Issued(last)) =>
        LET ns == store[last.arg.namespace].namespace
            r == StoreVerify(last.result, store, now)
        IN /\ r.err = Null
           /\ r.result = Assign(last.arg.payload,
                                [exp |-> now + ns.tokenTtlInSecs, iat |-> now])

\* C6: parsing the kid header of a token of a symmetric namespace recovers the
\* namespace id and the key id that sign built the header from.
KidRoundTrip ==
    \A token \in tokens :
        token.header.alg = HS256 =>
            Parse(token.header.kid) = [ namespace |-> token.signedBy.namespace,
                                        keyId     |-> token.signedBy.keyId ]

\* C7: the kid header of every token is "<namespace id>:<key id>" when the
\* namespace's algorithm is of the HS family, and otherwise the bare key
\* reference of the namespace, without a prefix.
KidFormat ==
    \A token \in tokens \cup (IF Issued(last) THEN {last.result} ELSE {}) :
        IF StartsWith(token.header.alg, <<"H", "S">>)
        THEN token.header.kid =
               token.signedBy.namespace \o <<":">> \o token.signedBy.keyId
        ELSE \E namespace \in ExternalNamespaces :
               /\ namespace.id = token.signedBy.namespace
               /\ token.header.kid = namespace.key

\* A sign call just returned a token of a symmetric namespace while the client
\* holds a token of an external-key namespace.
KidFormatWitness ==
    /\ last.op = "sign" /\ Issued(last)
    /\ StartsWith(last.result.header.alg, <<"H", "S">>)
    /\ \E token \in tokens : token.header.alg = RS256

----------------------------------------------------------------------------
(* Properties of provisioning and of the handler dispatch. *)

----------------------------------------------------------------------------
(* Properties of verify. *)

\* C11: a verify call for a token whose header algorithm is of a family
\* without handler ends with an error handed to its callback, never with a
\* result, and reads no namespace record.
VerifyUnsupportedRejected ==
    (/\ last.op = "verify"
     /\ Substr02(last.arg.token.header.alg) \notin HandlerFamilies) =>
        /\ last.pc = "done"
        /\ last.err # Null
        /\ last.result = Null
        /\ last.reads = 0

\* The key ids a kid header may name: those of the seconds of the clock, and
\* one that no key has.
VerifyKeyIds == {NumToString(t) : t \in 0..MaxTime} \cup {<<"9">>}

----------------------------------------------------------------------------
(* Properties of the external-key handler. *)

\* C13: every provision and sign call of an external-key namespace resolves
\* the namespace's key reference through the registry; it ends with an
\* InvalidKey error, without a token and without a write, whenever the
\* registry answers with an error or with a key that is not active; and a
\* token is issued only on a key the registry just answered to be active.
RevocationEnforced ==
    (last.op \in {"provision", "sign", "handlerSign"} /\ last.answer # "none") =>
        /\ last.lookup # Null
        /\ last.answer # "active" =>
              /\ last.pc = "done"
              /\ last.err # Null
              /\ last.err.name = "InvalidKey"
              /\ last.result = Null
              /\ last.writes = 0
        /\ Issued(last) => last.answer = "active"

\* C14: a verify call for a token that sign issued for an external-key
\* namespace, made before the token's exp, ends without an error and hands
\* the token's payload to its callback.
ExternalKeyVerifyAccepts ==
    (/\ last.op = "verify"
     /\ last.arg.token \in tokens
     /\ GetNamespaceHandler(last.arg.token.header.alg) = "WebKey"
     /\ now < last.arg.token.payload.exp) =>
        /\ last.pc = "done"
        /\ last.err = Null
        /\ last.result = last.arg.token.payload

----------------------------------------------------------------------------
(* Properties of the rotation write. *)

\* C15: the write of a rotation goes through only on the version its process
\* read: whenever a key state is written to the record of a namespace, the key
\* it retires (its previousKey) is the key the record held until then, and
\* not one that another process already rotated away.
ConditionalUpdateDiscipline ==
    [][ \A id \in DOMAIN history :
          Len(history'[id]) > Len(history[id]) =>
              history'[id][Len(history'[id])].previousKey
                  = store[id].namespace.state.key ]_vars

\* C16: the key of every key state a rotation wrote expires at its creation
\* time plus the namespace's tokenTtlInSecs plus its clockToleranceInSecs, a
\* number greater than its creation time.
RotatedKeyExpiry ==
    \A id \in DOMAIN history :
        \A i \in 1..Len(history[id]) :
            LET ns == store[id].namespace
                state == history[id][i]
            IN (GetNamespaceHandler(ns.algorithm) = "Hmac"
                  /\ state.previousKey # Null)
                 => /\ state.key.expires = state.key.created + ns.tokenTtlInSecs
                                            + ns.clockToleranceInSecs
                    /\ state.key.expires > state.key.created

\* C17: a getKey call rotates, and issues its write, only for a key that is
\* no longer live: one whose expires is not greater than the time of the call,
\* and which is past its creation time plus the namespace's ttl and tolerance
\* (so that the call after a rotation, within that time, does not rotate
\* again); a sign call that issued no write returns a token signed with the
\* key the record holds, after a single read.
NoRotationWhileLive ==
    /\ \A p \in Procs :
          (calls[p].op = "sign" /\ calls[p].pc = "update") =>
              LET ns == calls[p].ns
                  retired == calls[p].state.previousKey
                  at == calls[p].state.key.created
              IN /\ ~JsGt(retired.expires, at)
                 /\ at >= retired.created + ns.tokenTtlInSecs + ns.clockToleranceInSecs
    /\ (last.op = "sign" /\ Issued(last) /\ last.writes = 0) =>
          /\ last.reads = 1
          /\ last.result.sig =
                Base64Decode(store[last.arg.namespace].namespace.state.key.data)

\* C18: when the conditional update of a getKey finds a record whose current
\* key id is no longer the one the attempt read, the step leaves the stored
\* record and the persisted key states as they were, the attempt's key state
\* is dropped (it is in no record and in no token), and the call goes on to
\* read the record again; the retry's read writes nothing, and a token it
\* hands out is signed with the key of the record it read.
NoPartialEffectsOnLostRace ==
    [][\A p \in Procs :
         LET c == calls[p]
             id == c.ns.id
         IN /\ (/\ c.op = "sign" /\ c.pc = "update"
                 /\ calls'[p] # c
                 /\ store[id].namespace.state.key.id # c.state.previousKey.id) =>
                  /\ store' = store
                  /\ history' = history
                  /\ calls'[p].pc = "retryGet"
                  /\ calls'[p].state = Null
                  /\ calls'[p].reads = c.reads
                  /\ \A i \in 1..Len(history'[id]) :
                        history'[id][i].key.data # c.state.key.data
                  /\ \A token \in tokens' :
                        token.sig # Base64Decode(c.state.key.data)
            /\ (c.op = "sign" /\ c.pc = "retryGet" /\ calls'[p] # c) =>
                  /\ store' = store
                  /\ history' = history
                  /\ Issued(last') =>
                        last'.result.sig =
                          Base64Decode(store[id].namespace.state.key.data)
                  /\ IF calls'[p].pc = "updateNoId"
                     THEN calls'[p].reads = c.reads + 1
                     ELSE last'.reads = c.reads + 1
      ]_vars

NoPartialEffectsWitness ==
    \E p \in Procs :
        /\ calls[p].op = "sign" /\ calls[p].pc = "retryGet" /\ calls[p].lost
        /\ calls[p].state = Null
        /\ Len(history[calls[p].ns.id]) >= 2

\* C20: the record of a symmetric namespace holds two key slots, previousKey
\* and key, and nothing else; it is the last key state written, and the
\* previousKey of every key state written is the key of the state written
\* just before it, whose own previousKey is dropped.
TwoKeyInvariant ==
    \A id \in DOMAIN store :
        GetNamespaceHandler(store[id].namespace.algorithm) = "Hmac" =>
            LET written == history[id]
                state == store[id].namespace.state
            IN /\ DOMAIN state = {"previousKey", "key"}
               /\ state = written[Len(written)]
               /\ \A i \in 2..Len(written) :
                     /\ written[i].previousKey = written[i - 1].key
                     /\ written[i].previousKey # written[i - 1].previousKey

----------------------------------------------------------------------------
(* Properties of the key state cache. *)

\* C19: at the step where a conditional update matches no record, or an insert
\* hits an existing record, the cache of the process is cleared before the
\* retry runs, and the first step of the retry is a read of the collection:
\* the retry takes nothing from the cache, writes nothing, and no call in a
\* retry holds a key state to write again.
CacheClearedBeforeRetry ==
    [][\A p \in Procs :
         LET c == calls[p]
             after == IF calls'[p] = IdleCall THEN last' ELSE calls'[p]
         IN /\ (/\ c.pc \in {"insert", "update"}
                 /\ calls'[p] # c
                 /\ Retried(after)) =>
                  /\ keyState'[p] = Null
                  /\ store' = store
                  /\ nextKey' = nextKey
                  /\ after.pc = "retryGet"
                  /\ after.reads = c.reads + 1
                  /\ after.writes = c.writes
            /\ Retried(c) =>
                  /\ c.pc = "retryGet"
                  /\ c.state = Null
                  /\ keyState[p] = Null
                  /\ calls'[p] # c => store' = store
      ]_vars

----------------------------------------------------------------------------
(* Properties of the stored record. *)

\* C21: no step removes a record or changes the id, algorithm,
\* tokenTtlInSecs, clockToleranceInSecs or creation time of a stored
\* namespace: a step that changes a record (a rotation) changes its state and
\* its update timestamp only, so that these fields stay as provisioning wrote
\* them.
RotationFrame ==
    [][\A id \in DOMAIN store :
         /\ id \in DOMAIN store'
         /\ store'[id] = [store[id] EXCEPT
                            !.namespace.state = store'[id].namespace.state,
                            !.meta.updated = store'[id].meta.updated]
         /\ store'[id].namespace.id = id
      ]_vars

\* The record of a symmetric namespace after a rotation was written to it at a
\* later second than its provisioning.
RotationFrameWitness ==
    \E id \in DOMAIN store :
        /\ GetNamespaceHandler(store[id].namespace.algorithm) = "Hmac"
        /\ store[id].namespace.state.previousKey # Null
        /\ store[id].meta.updated > store[id].meta.created

\* C22: in every key state a rotation wrote to the record of a symmetric
\* namespace, the id of the new key is the decimal form of a greater number
\* than the id of the key it retires.
KeyIdsIncrease ==
    \A id \in DOMAIN history :
        \A i \in 1..Len(history[id]) :
            LET state == history[id][i]
            IN (GetNamespaceHandler(store[id].namespace.algorithm) = "Hmac"
                  /\ state.previousKey # Null)
                 => \E m, n \in 0..MaxTime :
                      /\ state.previousKey.id = NumToString(m)
                      /\ state.key.id = NumToString(n)
                      /\ m < n

\* C27: in the record of a symmetric namespace that has a previousKey, the
\* ids of key and previousKey differ, so that the key id of a token names at
\* most one of the two keys NamespaceHandlerHmac.verify chooses between.
KeyIdsDistinct ==
    \A id \in DOMAIN store :
        LET state == store[id].namespace.state
        IN (GetNamespaceHandler(store[id].namespace.algorithm) = "Hmac"
              /\ state.previousKey # Null)
             => /\ state.key.id # state.previousKey.id
                /\ \A keyId \in VerifyKeyIds :
                     Cardinality({k \in {state.key, state.previousKey} :
                                    k.id = keyId}) <= 1

\* C28: a step in which a verify call of the facade ends leaves every record
\* of the collection and the key states written to it as they were, generates
\* no key, leaves no access pending, and the call has issued no insert or
\* update and made at most one read.
VerifyReadOnly ==
    [][last'.op = "verify" =>
         /\ store' = store
         /\ history' = history
         /\ nextKey' = nextKey
         /\ calls' = calls
         /\ last'.writes = 0
         /\ last'.reads <= 1
      ]_vars

\* A verify call that ended after its read, at a time when the key of a
\* symmetric namespace in the collection is expired.
VerifyReadOnlyWitness ==
    /\ last.op = "verify" /\ last.pc = "done" /\ last.reads = 1
    /\ \E id \in DOMAIN store :
         /\ GetNamespaceHandler(store[id].namespace.algorithm) = "Hmac"
         /\ ~KeyLive(store[id].namespace.state, now)

\* C23: a sign call that handed out a token for a namespace, and a verify call
\* that accepted a token for a namespace, used a key of that namespace: the
\* namespace has a record, and the key the token is signed with is one of the
\* keys written to that record.
CacheIsolation ==
    (/\ last.pc = "done" /\ last.err = Null
     /\ last.op \in {"sign", "verify"}) =>
        LET id == last.arg.namespace
            token == IF last.op = "sign" THEN last.result ELSE last.arg.token
        IN /\ id \in DOMAIN store
           /\ \E i \in 1..Len(history[id]) :
                Base64Decode(history[id][i].key.data) = token.sig

\* C24: in every record of the collection the data of key, and of previousKey
\* when there is one, is the text encoding that _generateHmacKey produced, and
\* not the decoded material that key resolution hands back.
StoredKeyMaterialEncoded ==
    \A id \in DOMAIN store :
        LET state == store[id].state
        IN /\ state.key.data[1] = "b64"
           /\ state.previousKey # Null => state.previousKey.data[1] = "b64"

----------------------------------------------------------------------------
(* Properties of the retry. *)

\* C25: every access to the collection that a call has pending after a lost
\* conditional update or a duplicate insert is issued for the namespace id of
\* the original call, and no such call ends in an exception in place of its
\* next access.
RetryKeepsNamespace ==
    /\ \A p \in Procs :
          (calls[p].lost \/ calls[p].dup) =>
              calls[p].target = Target(calls[p].arg.namespace)
    /\ (last.lost \/ last.dup) => last.pc # "thrown"

\* C26: every sign call that resolves its key through the symmetric handler's
\* getKey (it makes no registry lookup) ends with its caller's callback
\* invoked, and never in an exception that leaves the callback uninvoked:
\* whether its key was live, its rotation won, the store answered with an
\* error, or its rotation was lost and retried.
CompletesExactlyOnce ==
    (last.op = "sign" /\ last.answer = "none") => last.pc = "done"

====
